---- MODULE Spec2Model ----
(***************************************************************************)
(* A model of the ai-hedge-fund pipeline: the State Store served by        *)
(* src/mcp/server.py, the orchestrator run_hedge_fund of src/main.py, the  *)
(* plugins the agents call, and the persona scorers of src/plugins.        *)
(*                                                                         *)
(* Three specifications share the variables:                               *)
(*   Spec       one run of run_hedge_fund, with the tool calls of its      *)
(*              terminal stage against the State Store;                    *)
(*   SpecStore  a client calling the store's two tools, get and set;       *)
(*   SpecScore  one get_analysis_data call of a persona plugin.            *)
(***************************************************************************)
EXTENDS Integers, Sequences, FiniteSets, TLC

VARIABLES
    file,           \* agent_state.json: the only state the store keeps between calls
    lastSet,        \* SpecStore: the argument of the client's latest set (NoCall before any)
    lastGet,        \* SpecStore: what the client's latest get returned (NoCall before any)
    lastOp,         \* SpecStore: "none", "set" or "get", the client's latest call
    pc,             \* where run_hedge_fund is
    tickers,        \* run_hedge_fund's tickers argument
    start_date,     \* run_hedge_fund's start_date argument
    end_date,       \* run_hedge_fund's end_date argument
    agents,         \* the agent names create_agents returned, in order
    ti,             \* index in tickers of the ticker being processed
    si,             \* index in agents of the stage being processed
    response,       \* the local variable response
    analysis_data,  \* the local variable analysis_data
    result,         \* what run_hedge_fund returned
    invocations,    \* history: every agent invocation, with what filled its message
    failures,       \* history: the (ticker index, agent) pairs whose invocation threw
    calls,          \* the plugin calls of the terminal stage's current invocation
    analysis_call,  \* SpecScore: the latest get_analysis_data call: where it is, what it fetched
    analysis_result,\* SpecScore: what that call returned, or the error it raised
    risk_done,      \* SpecRisk: the latest get_risk_data call that returned: what it read, got and gave
    parse_call      \* SpecParse: a parse_hedge_fund_response call: its argument, what it returned

storeVars == <<file, lastSet, lastGet, lastOp>>
runVars == <<pc, tickers, start_date, end_date, agents, ti, si, response, analysis_data, result,
             invocations, failures, calls>>

scoreVars == <<analysis_call, analysis_result>>
riskVars == <<risk_done>>
parseVars == <<parse_call>>

vars == <<file, lastSet, lastGet, lastOp, pc, tickers, start_date, end_date, agents, ti, si, response,
          analysis_data, result, invocations, failures, calls, analysis_call, analysis_result,
          risk_done, parse_call>>

(***************************************************************************)
(* JSON documents.  A document is tagged with its JSON type; a dict        *)
(* carries its key/value function.  Python's None and JSON's null are the  *)
(* same document.                                                          *)
(***************************************************************************)
None == [t |-> "null", v |-> <<>>]
Dict(d) == [t |-> "dict", v |-> d]
NoCall == [t |-> "nocall", v |-> <<>>]

isinstance_dict(doc) == doc.t = "dict"

\* d with key k set to val (Python: d[k] = val)
DictSet(d, k, val) == [x \in (DOMAIN d) \cup {k} |-> IF x = k THEN val ELSE d[x]]

(***************************************************************************)
(* The state file.  st = "missing": no file; "partial": a file that        *)
(* open(..., 'w') truncated and json.dump did not finish, so its text is   *)
(* not JSON; "json": the text json.dump wrote for doc.                     *)
(***************************************************************************)
FileMissing == [st |-> "missing", doc |-> None]
FilePartial == [st |-> "partial", doc |-> None]
FileOf(doc) == [st |-> "json", doc |-> doc]

\* How the file system answers a write: the file is written, open() raises
\* (the file is left as it was), or the write raises after open() truncated.
WriteOutcomes == {"ok", "open_error", "write_error"}
\* How it answers a read.
ReadOutcomes == {"ok", "read_error"}

\* load_state_from_file with a slip: a default empty state, not None, when
\* there is no file
load_state_from_file_DefaultState(f, io) ==
    IF f.st = "missing" THEN Dict([messages |-> <<>>, data |-> <<>>, metadata |-> <<>>])
    ELSE IF io = "read_error" THEN None
    ELSE IF f.st = "partial" THEN None
    ELSE IF isinstance_dict(f.doc) /\ {"data", "metadata"} \subseteq DOMAIN f.doc.v
         THEN f.doc
         ELSE None

\* server.py load_state_from_file: None unless the file holds a dict with
\* both keys; every exception is logged and answered with None.
load_state_from_file(f, io) ==
    IF f.st = "missing" THEN None
    ELSE IF io = "read_error" THEN None
    ELSE IF f.st = "partial" THEN None
    ELSE IF isinstance_dict(f.doc) /\ {"data", "metadata"} \subseteq DOMAIN f.doc.v
         THEN f.doc
         ELSE None

\* server.py save_state_to_file: the file after the call.  Exceptions are
\* logged and swallowed, so the caller sees the same normal return.
save_state_to_file(f, current_state, io) ==
    CASE io = "ok"          -> FileOf(current_state)
      [] io = "open_error"  -> f
      [] io = "write_error" -> FilePartial

\* server.py get: the value the tool returns
get(f, io) == load_state_from_file(f, io)

\* server.py set: the file after the tool returns (it returns nothing)
set(f, new_state, io) == save_state_to_file(f, new_state, io)

(***************************************************************************)
(* Bounds of the model.                                                    *)
(***************************************************************************)
MaxTickers == 2         \* longest tickers list of a run
MaxCalls == 1           \* plugin calls the terminal stage makes in one invocation

TickerNames == {"T1", "T2"}
AnalystKeys == {"bill_ackman", "michael_burry"}

RECURSIVE SeqsUpTo(_, _)
\* the sequences over S of length at most n
SeqsUpTo(S, n) ==
    IF n = 0 THEN {<<>>}
    ELSE LET shorter == SeqsUpTo(S, n - 1)
         IN  shorter \cup {Append(q, x) : q \in shorter, x \in S}

Range(q) == {q[i] : i \in DOMAIN q}
NoDuplicates(q) == \A i, j \in DOMAIN q : i # j => q[i] # q[j]

TickerLists == SeqsUpTo(TickerNames, MaxTickers)
\* the checkbox of main.py offers each analyst once
AnalystSelections == {q \in SeqsUpTo(AnalystKeys, Cardinality(AnalystKeys)) : NoDuplicates(q)}

(***************************************************************************)
(* AgentState as run_hedge_fund builds it, and the portfolio __main__      *)
(* seeds for it.                                                           *)
(***************************************************************************)
DefaultInitialCash == 100000
NoPrice == -1
Prices == {50}
\* (start_date, end_date) pairs; dates are day numbers
DateRanges == {<<1, 2>>, <<2, 1>>}

\* main.py __main__: cash, and a zero position for every ticker
InitialPortfolio(tk, cash) ==
    [cash |-> cash,
     margin_requirement |-> 0,
     margin_used |-> 0,
     positions |-> [t \in Range(tk) |-> [long |-> 0, short |-> 0]]]

\* main.py run_hedge_fund: the state it sends to the store
NewAgentState(tk, portfolio, start, end, show_reasoning) ==
    Dict([data |-> [tickers |-> tk,
                    portfolio |-> portfolio,
                    start_date |-> start,
                    end_date |-> end,
                    analyst_signals |-> <<>>],
          metadata |-> [show_reasoning |-> show_reasoning]])

(***************************************************************************)
(* The risk calculator of RiskDataPlugin.get_risk_data, as a function of   *)
(* the state read from the store and of the prices get_prices answers      *)
(* (px maps every ticker asked for to a price or to NoPrice).  Amounts are *)
(* integers; the inputs keep total_portfolio_value a multiple of 5, so     *)
(* that 20% of it is exact.                                                *)
(***************************************************************************)
all_tickers(data) == Range(data.tickers) \cup DOMAIN data.portfolio.positions

PriceMaps(data) == [all_tickers(data) -> Prices \cup {NoPrice}]

current_prices(data, px) == {t \in all_tickers(data) : px[t] # NoPrice}

RECURSIVE PositionsValue_AddsShorts(_, _, _)
\* the sum with a slip: the value of the short positions is added
PositionsValue_AddsShorts(S, positions, px) ==
    IF S = {} THEN 0
    ELSE LET t == CHOOSE x \in S : TRUE
         IN  (IF px[t] # NoPrice
              THEN positions[t].long * px[t] + positions[t].short * px[t]
              ELSE 0)
             + PositionsValue_AddsShorts(S \ {t}, positions, px)

RECURSIVE PositionsValue(_, _, _)
\* the sum of long*price - short*price over the positions in S that have a price
PositionsValue(S, positions, px) ==
    IF S = {} THEN 0
    ELSE LET t == CHOOSE x \in S : TRUE
         IN  (IF px[t] # NoPrice
              THEN positions[t].long * px[t] - positions[t].short * px[t]
              ELSE 0)
             + PositionsValue(S \ {t}, positions, px)

total_portfolio_value(data, px) ==
    data.portfolio.cash
    + PositionsValue(DOMAIN data.portfolio.positions, data.portfolio.positions, px)

Abs(x) == IF x < 0 THEN -x ELSE x
Min(x, y) == IF x <= y THEN x ELSE y

MissingPriceRecord ==
    [remaining_position_limit |-> 0,
     current_price |-> 0,
     reasoning |-> [error |-> "Missing price data for risk calculation"]]

position_of(data, t) ==
    IF t \in DOMAIN data.portfolio.positions
    THEN data.portfolio.positions[t]
    ELSE [long |-> 0, short |-> 0]

\* the value with a slip: the net value with its sign, abs() forgotten
current_position_value_Signed(data, px, t) ==
    position_of(data, t).long * px[t] - position_of(data, t).short * px[t]

current_position_value(data, px, t) ==
    Abs(position_of(data, t).long * px[t] - position_of(data, t).short * px[t])

position_limit(data, px) == (total_portfolio_value(data, px) * 20) \div 100

remaining_position_limit(data, px, t) ==
    position_limit(data, px) - current_position_value(data, px, t)

\* the record with a slip: a negative remaining limit is reported as zero
RiskRecord_ClampsAtZero(data, px, t) ==
    IF t \notin current_prices(data, px)
    THEN MissingPriceRecord
    ELSE LET max_position_size ==
                 Min(remaining_position_limit(data, px, t), data.portfolio.cash)
         IN  [remaining_position_limit |-> IF max_position_size < 0 THEN 0 ELSE max_position_size,
              current_price |-> px[t],
              reasoning |-> [portfolio_value |-> total_portfolio_value(data, px),
                             current_position_value |-> current_position_value(data, px, t),
                             position_limit |-> position_limit(data, px),
                             remaining_limit |-> remaining_position_limit(data, px, t),
                             available_cash |-> data.portfolio.cash]]

RiskRecord(data, px, t) ==
    IF t \notin current_prices(data, px)
    THEN MissingPriceRecord
    ELSE [remaining_position_limit |->
              Min(remaining_position_limit(data, px, t), data.portfolio.cash),
          current_price |-> px[t],
          reasoning |-> [portfolio_value |-> total_portfolio_value(data, px),
                         current_position_value |-> current_position_value(data, px, t),
                         position_limit |-> position_limit(data, px),
                         remaining_limit |-> remaining_position_limit(data, px, t),
                         available_cash |-> data.portfolio.cash]]

\* risk_analysis with a slip: a ticker without a price gets no record
risk_analysis_SkipsUnpriced(data, px) ==
    [t \in Range(data.tickers) \cap current_prices(data, px) |-> RiskRecord(data, px, t)]

\* the dict risk_analysis: one record per ticker of the state's tickers list
risk_analysis(data, px) == [t \in Range(data.tickers) |-> RiskRecord(data, px, t)]

\* the state get_risk_data sends back to the store
WithRiskSignal(state, ra) ==
    Dict([state.v EXCEPT !.data.analyst_signals =
              DictSet(state.v.data.analyst_signals, "risk_management_agent", ra)])

(***************************************************************************)
(* parse_hedge_fund_response.  A response text is a sequence of tokens:    *)
(*   "fence_open"   the characters ```json (in any case)                   *)
(*   "fence_close"  the characters ```                                     *)
(*   "ws"           white space                                            *)
(*   "json"         the text of one JSON value                             *)
(*   "junk"         any other text                                         *)
(***************************************************************************)
Tokens == {"fence_open", "fence_close", "ws", "json", "junk"}

RECURSIVE LStrip(_)
LStrip(q) == IF q # <<>> /\ Head(q) = "ws" THEN LStrip(Tail(q)) ELSE q

RECURSIVE RStrip(_)
RStrip(q) ==
    IF q # <<>> /\ q[Len(q)] = "ws" THEN RStrip(SubSeq(q, 1, Len(q) - 1)) ELSE q

Strip(q) == RStrip(LStrip(q))

\* json.loads(text) succeeds: one JSON value, white space around it allowed
json_loads_ok(text) == Strip(text) = <<"json">>

\* re.search(r"```json\s*(.*?)\s*```"): the first ```json that a ``` follows
\* (the first three characters of a later ```json are a ``` too)
FenceOpens(text) ==
    {i \in DOMAIN text :
        /\ text[i] = "fence_open"
        /\ \E j \in DOMAIN text : j > i /\ text[j] \in {"fence_open", "fence_close"}}

MatchStart(text) == CHOOSE i \in FenceOpens(text) : \A k \in FenceOpens(text) : i <= k

\* the match with a greedy group, (.*) for (.*?): it runs to the last ```
MatchEnd_Greedy(text) ==
    CHOOSE j \in DOMAIN text :
        /\ j > MatchStart(text)
        /\ text[j] \in {"fence_open", "fence_close"}
        /\ \A k \in DOMAIN text :
              (k > MatchStart(text) /\ text[k] \in {"fence_open", "fence_close"}) => k <= j

MatchEnd(text) ==
    CHOOSE j \in DOMAIN text :
        /\ j > MatchStart(text)
        /\ text[j] \in {"fence_open", "fence_close"}
        /\ \A k \in DOMAIN text :
              (k > MatchStart(text) /\ text[k] \in {"fence_open", "fence_close"}) => j <= k

\* match.group(1).strip()
FencedPart(text) == Strip(SubSeq(text, MatchStart(text) + 1, MatchEnd(text) - 1))

\* whether parse_hedge_fund_response decodes a document from the text
ParseOk(text) ==
    IF FenceOpens(text) # {}
    THEN json_loads_ok(FencedPart(text))
    ELSE json_loads_ok(text)

(***************************************************************************)
(* Responses.  The content of a response is the text the agent wrote,      *)
(* tagged with the agent that wrote it and the ticker (by its index in     *)
(* tickers) it was invoked for.  What parse_hedge_fund_response makes of   *)
(* it keeps the tags: the decoded document, or None (t = "null") with the  *)
(* tags of the text that did not parse.  The tags tell one stage's output  *)
(* from another's and play no part in the program.                         *)
(***************************************************************************)
Content(text, by, i) == [text |-> text, by |-> by, ti |-> i]
Doc(by, i) == [t |-> "doc", v |-> <<by, i>>]
NoneFrom(by, i) == [t |-> "null", v |-> <<by, i>>]
IsNone(x) == x.t = "null"

\* parse_hedge_fund_response(str(response.content)): the document, or None
parse_hedge_fund_response(content) ==
    IF ParseOk(content.text)
    THEN Doc(content.by, content.ti)
    ELSE NoneFrom(content.by, content.ti)

Unbound == [k |-> "unbound", content |-> None]    \* the name is not assigned yet
PyNone == [k |-> "none", content |-> None]        \* the name holds None
Resp(content) == [k |-> "resp", content |-> content]

\* the texts an agent answers with in a run
ResponseTexts ==
    {<<"json">>,
     <<"fence_open", "ws", "json", "ws", "fence_close">>,
     <<"junk">>}

\* how agent.invoke ends: it raises, it yields nothing, or it yields a text
InvokeOutcomes ==
    {[k |-> "raise", text |-> <<>>], [k |-> "no_response", text |-> <<>>]}
    \cup {[k |-> "text", text |-> x] : x \in ResponseTexts}

(***************************************************************************)
(* create_agents: one agent per selected analyst, in the caller's order,   *)
(* then the portfolio manager.                                             *)
(***************************************************************************)
PortfolioManager == "portfolio_manager_agent"

\* utils/analysts.py get_analyst_nodes: the node name of an analyst key
node_name(key) == key \o "_agent"

create_agents(selected_analysts) ==
    [i \in 1..Len(selected_analysts) |-> node_name(selected_analysts[i])]
    \o <<PortfolioManager>>

\* The unfilled {$analysis_data} placeholder of a message template
Placeholder == Content(<<"{$analysis_data}">>, "", 0)

\* main.py lines 109-111: the message of the stage about to run
user_message(ticker, date, resp) ==
    [ticker |-> ticker,
     end_date |-> date,
     analysis_data |-> IF resp # PyNone THEN resp.content ELSE Placeholder]

(***************************************************************************)
(* The state before a run: no state file, or the file an earlier run left. *)
(***************************************************************************)
LeftoverState ==
    WithRiskSignal(
        NewAgentState(<<"T2">>, InitialPortfolio(<<"T2">>, DefaultInitialCash), 1, 2, FALSE),
        [t \in {"T2"} |-> MissingPriceRecord])

InitialFiles == {FileMissing, FileOf(LeftoverState)}

StoreIdle ==
    /\ lastSet = NoCall
    /\ lastGet = NoCall
    /\ lastOp = "none"

RunIdle ==
    /\ pc = "start"
    /\ tickers = <<>>
    /\ start_date = 0
    /\ end_date = 0
    /\ agents = <<>>
    /\ ti = 0
    /\ si = 0
    /\ response = Unbound
    /\ analysis_data = <<>>
    /\ result = None
    /\ invocations = <<>>
    /\ failures = {}
    /\ calls = <<>>

\* no get_analysis_data call is under way: nothing fetched yet
NoAnalysisCall ==
    [at |-> "idle", persona |-> "", ticker |-> "", metrics |-> <<>>, line_items |-> <<>>,
     insider_trades |-> <<>>, news |-> <<>>, market_cap |-> <<>>]

\* no get_risk_data call has returned
NoRiskCall ==
    [st |-> "none", ticker |-> "", read |-> None, data |-> <<>>, px |-> <<>>, value |-> <<>>,
     signals |-> <<>>, shown |-> <<>>, stale |-> FALSE]
RiskIdle == risk_done = NoRiskCall

\* no parse_hedge_fund_response call of SpecParse is under way
NoParseCall == [st |-> "none", response |-> <<>>, value |-> <<>>]
ParseIdle == parse_call = NoParseCall

\* no persona plugin has been called
ScoreIdle ==
    /\ analysis_call = NoAnalysisCall
    /\ analysis_result = [k |-> "none", v |-> <<>>]

Init ==
    /\ file \in InitialFiles
    /\ StoreIdle
    /\ RunIdle
    /\ ScoreIdle
    /\ RiskIdle
    /\ ParseIdle

(***************************************************************************)
(* run_hedge_fund, lines 71-101: build the state, send it to the store     *)
(* (mcp_upsert_state calls the tool set), create the agents.               *)
(***************************************************************************)
run_hedge_fund_begin ==
    /\ pc = "start"
    /\ \E tk \in TickerLists, sel \in AnalystSelections, dates \in DateRanges,
          io \in WriteOutcomes :
          LET state == NewAgentState(tk, InitialPortfolio(tk, DefaultInitialCash),
                                     dates[1], dates[2], FALSE)
          IN  /\ file' = set(file, state, io)
              /\ tickers' = tk
              /\ start_date' = dates[1]
              /\ end_date' = dates[2]
              /\ agents' = create_agents(sel)
              /\ IF tk = <<>>
                 THEN ti' = 0 /\ si' = 0 /\ response' = Unbound /\ pc' = "after_loop"
                 ELSE ti' = 1 /\ si' = 1 /\ response' = PyNone /\ pc' = "stage"
    /\ analysis_data' = <<>>
    /\ UNCHANGED <<parseVars, riskVars, scoreVars, lastSet, lastGet, lastOp, result, invocations, failures, calls>>

\* LoopStep with a slip: response keeps the first output of the ticker
\* instead of the latest.
LoopStep_KeepsFirstResponse(resp, ad) ==
    IF si < Len(agents)
    THEN /\ ti' = ti /\ si' = si + 1 /\ pc' = "stage"
         /\ response' = (IF response.k = "resp" THEN response ELSE resp)
         /\ analysis_data' = ad
    ELSE IF ti < Len(tickers)
    THEN /\ ti' = ti + 1 /\ si' = 1 /\ pc' = "stage"
         /\ response' = PyNone /\ analysis_data' = <<>>
    ELSE /\ ti' = ti /\ si' = si /\ pc' = "after_loop"
         /\ response' = resp /\ analysis_data' = ad

\* LoopStep with a slip: response and analysis_data are set once before
\* the loop over the tickers, not at the start of each ticker.
LoopStep_KeepsLocalsAcrossTickers(resp, ad) ==
    IF si < Len(agents)
    THEN /\ ti' = ti /\ si' = si + 1 /\ pc' = "stage"
         /\ response' = resp /\ analysis_data' = ad
    ELSE IF ti < Len(tickers)
    THEN /\ ti' = ti + 1 /\ si' = 1 /\ pc' = "stage"
         /\ response' = resp /\ analysis_data' = ad
    ELSE /\ ti' = ti /\ si' = si /\ pc' = "after_loop"
         /\ response' = resp /\ analysis_data' = ad

\* The loops' bookkeeping once the body of lines 108-116 ended without an
\* exception, leaving resp in response and ad in analysis_data: the next
\* agent, or the next ticker (lines 105-106 reset both locals), or the end.
LoopStep(resp, ad) ==
    IF si < Len(agents)
    THEN /\ ti' = ti /\ si' = si + 1 /\ pc' = "stage"
         /\ response' = resp /\ analysis_data' = ad
    ELSE IF ti < Len(tickers)
    THEN /\ ti' = ti + 1 /\ si' = 1 /\ pc' = "stage"
         /\ response' = PyNone /\ analysis_data' = <<>>
    ELSE /\ ti' = ti /\ si' = si /\ pc' = "after_loop"
         /\ response' = resp /\ analysis_data' = ad

\* What the history keeps of an invocation: the ticker (by index), the agent,
\* and the tags of the content its message carries for {$analysis_data}.
\* collect with a slip: an output that did not parse is not collected
collect_SkipsNone(ad, agent, parsed) ==
    IF IsNone(parsed) THEN ad ELSE DictSet(ad, agent, parsed)

\* main.py lines 115-116: an analyst's parsed output is collected under its name
collect(ad, agent, parsed) == DictSet(ad, agent, parsed)

Invocation(i, agent, message) ==
    [ti |-> i,
     agent |-> agent,
     ticker |-> message.ticker,
     analysis_by |-> message.analysis_data.by,
     analysis_ti |-> message.analysis_data.ti]

\* Lines 108-116 for an analyst's agent.  Its plugin, get_analysis_data,
\* touches no shared state, so the invocation is one step.
analyst_stage ==
    /\ pc = "stage"
    /\ agents[si] # PortfolioManager
    /\ invocations' = Append(invocations,
           Invocation(ti, agents[si], user_message(tickers[ti], end_date, response)))
    /\ \E out \in InvokeOutcomes :
          CASE out.k = "raise" ->
                 \* asyncio.run(invoke_agent(...)) raises; nothing catches it
                 /\ pc' = "raised"
                 /\ failures' = failures \cup {<<ti, agents[si]>>}
                 /\ UNCHANGED <<ti, si, response, analysis_data>>
            [] out.k = "no_response" ->
                 \* invoke_agent returns None; response.content raises at line 116
                 /\ pc' = "raised"
                 /\ failures' = failures \cup {<<ti, agents[si]>>}
                 /\ response' = PyNone
                 /\ UNCHANGED <<ti, si, analysis_data>>
            [] out.k = "text" ->
                 LET content == Content(out.text, agents[si], ti)
                 IN  /\ LoopStep(Resp(content),
                                 collect(analysis_data, agents[si],
                                         parse_hedge_fund_response(content)))
                     /\ UNCHANGED failures
    /\ UNCHANGED <<parseVars, riskVars, scoreVars, storeVars, tickers, start_date, end_date, agents, result, calls>>

\* Lines 108-114 for the portfolio manager: the invocation starts.  Its
\* plugins read and write the store while it runs.
manager_invoke ==
    /\ pc = "stage"
    /\ agents[si] = PortfolioManager
    /\ invocations' = Append(invocations,
           Invocation(ti, agents[si], user_message(tickers[ti], end_date, response)))
    /\ calls' = <<>>
    /\ pc' = "invoking"
    /\ UNCHANGED <<parseVars, riskVars, scoreVars, storeVars, tickers, start_date, end_date, agents, ti, si, response,
                   analysis_data, result, failures>>

\* A plugin call of the running invocation: st is "read" between the read of
\* the state (kept in snap) and the write, "done" once it returned value, and
\* "failed" if it raised.
Call(tool, st, snap, value) == [tool |-> tool, st |-> st, snap |-> snap, value |-> value]

\* RiskDataPlugin.get_risk_data, lines 17-21: read the state.  With no
\* state in the store there is no text to decode and the call fails.
get_risk_data_read ==
    /\ pc = "invoking"
    /\ Len(calls) < MaxCalls
    /\ \E io \in ReadOutcomes :
          LET got == get(file, io)
          IN  calls' = Append(calls,
                  IF got = None
                  THEN Call("get_risk_data", "failed", None, None)
                  ELSE Call("get_risk_data", "read", got, None))
    /\ UNCHANGED <<parseVars, riskVars, scoreVars, storeVars, pc, tickers, start_date, end_date, agents, ti, si, response,
                   analysis_data, result, invocations, failures>>

\* RiskDataPlugin.get_risk_data, lines 23-117: compute the risk analysis
\* from the state read, store it under "risk_management_agent", return it.
get_risk_data_write ==
    /\ pc = "invoking"
    /\ \E c \in DOMAIN calls :
          /\ calls[c].tool = "get_risk_data"
          /\ calls[c].st = "read"
          /\ \E px \in PriceMaps(calls[c].snap.v.data), io \in WriteOutcomes :
                LET ra == risk_analysis(calls[c].snap.v.data, px)
                    state == WithRiskSignal(calls[c].snap, ra)
                IN  /\ file' = set(file, state, io)
                    /\ calls' = [calls EXCEPT ![c] =
                                    Call("get_risk_data", "done", None, ra)]
    /\ UNCHANGED <<parseVars, riskVars, scoreVars, lastSet, lastGet, lastOp, pc, tickers, start_date, end_date, agents, ti, si,
                   response, analysis_data, result, invocations, failures>>

\* PorfolioDataPlugin.get_porforlio_data: read the state, return its portfolio
get_porforlio_data ==
    /\ pc = "invoking"
    /\ Len(calls) < MaxCalls
    /\ \E io \in ReadOutcomes :
          LET got == get(file, io)
          IN  calls' = Append(calls,
                  IF got = None
                  THEN Call("get_porforlio_data", "failed", None, None)
                  ELSE Call("get_porforlio_data", "done", None, got.v.data.portfolio))
    /\ UNCHANGED <<parseVars, riskVars, scoreVars, storeVars, pc, tickers, start_date, end_date, agents, ti, si, response,
                   analysis_data, result, invocations, failures>>

\* Lines 114-116 for the portfolio manager: the invocation ends, once its
\* plugin calls have.  Its response is not collected in analysis_data, and
\* a missing response is not looked at here.
manager_finish ==
    /\ pc = "invoking"
    /\ \A c \in DOMAIN calls : calls[c].st # "read"
    /\ \E out \in InvokeOutcomes :
          CASE out.k = "raise" ->
                 /\ pc' = "raised"
                 /\ failures' = failures \cup {<<ti, agents[si]>>}
                 /\ UNCHANGED <<ti, si, response, analysis_data>>
            [] out.k = "no_response" ->
                 /\ LoopStep(PyNone, analysis_data)
                 /\ UNCHANGED failures
            [] out.k = "text" ->
                 /\ LoopStep(Resp(Content(out.text, agents[si], ti)), analysis_data)
                 /\ UNCHANGED failures
    /\ calls' = <<>>
    /\ UNCHANGED <<parseVars, riskVars, scoreVars, storeVars, tickers, start_date, end_date, agents, result, invocations>>

\* Lines 118-121: the return.  response.content raises when response was
\* never assigned (no ticker) or holds None (the last invocation yielded
\* nothing).
run_hedge_fund_return ==
    /\ pc = "after_loop"
    /\ IF response.k = "resp"
       THEN /\ result' = Dict([decisions |-> parse_hedge_fund_response(response.content),
                               analyst_signals |-> analysis_data])
            /\ pc' = "returned"
            /\ UNCHANGED failures
       ELSE /\ pc' = "raised"
            /\ failures' = failures \cup {<<ti, "return">>}
            /\ UNCHANGED result
    /\ UNCHANGED <<parseVars, riskVars, scoreVars, storeVars, tickers, start_date, end_date, agents, ti, si, response,
                   analysis_data, invocations, calls>>

Next ==
    \/ run_hedge_fund_begin
    \/ analyst_stage
    \/ manager_invoke
    \/ get_risk_data_read
    \/ get_risk_data_write
    \/ get_porforlio_data
    \/ manager_finish
    \/ run_hedge_fund_return

Spec == Init /\ [][Next]_vars

(***************************************************************************)
(* Properties of run_hedge_fund.                                           *)
(***************************************************************************)
Ended == pc \in {"returned", "raised"}
AnalystAgents == Range(agents) \ {PortfolioManager}
StageOf(agent) == CHOOSE s \in DOMAIN agents : agents[s] = agent
AgentFailures == {f \in failures : f[2] \in Range(agents)}

\* the tickers the returned decisions were made for
DecisionTickers == {tickers[result.v.decisions.v[2]]}
\* the tickers the returned analyst_signals hold a record of agent a for
SignalTickers(a) ==
    IF a \in DOMAIN result.v.analyst_signals
    THEN {tickers[result.v.analyst_signals[a].v[2]]}
    ELSE {}

\* C2: the result run_hedge_fund returns holds a decision for every ticker of
\* the run and a record for every (analyst, ticker) pair, not only for the
\* last ticker processed.
C2_ResultCoversEveryTicker ==
    pc = "returned" =>
        \A i \in DOMAIN tickers :
            /\ tickers[i] \in DecisionTickers
            /\ \A a \in AnalystAgents : tickers[i] \in SignalTickers(a)

\* C3: when the run is over, every ticker has had every selected analyst
\* invoked once, in the caller's order, and then the portfolio manager once:
\* the invocations are, ticker after ticker, exactly the agents list.
C3_EveryStageOfEveryTickerInvokedInOrder ==
    Ended =>
        /\ Len(invocations) = Len(tickers) * Len(agents)
        /\ \A k \in DOMAIN invocations :
              /\ invocations[k].ti = ((k - 1) \div Len(agents)) + 1
              /\ invocations[k].agent = agents[((k - 1) % Len(agents)) + 1]

\* C4: the message of every stage after the first of its ticker carries, for
\* {$analysis_data}, the output the stage just before it gave for the same
\* ticker, and so no earlier stage's.
C4_MessageCarriesPredecessorOutput ==
    \A k \in DOMAIN invocations :
        StageOf(invocations[k].agent) > 1 =>
            /\ invocations[k].analysis_by = agents[StageOf(invocations[k].agent) - 1]
            /\ invocations[k].analysis_ti = invocations[k].ti

\* C4 witness: the portfolio manager has been invoked after two analysts
C4_Witness ==
    /\ Len(agents) = 3
    /\ \E k \in DOMAIN invocations :
          /\ invocations[k].agent = PortfolioManager
          /\ invocations[k].analysis_by = agents[2]

\* C5: an invocation that throws for one ticker does not abort the batch:
\* when the run is over, every ticker of the list has been processed.
C5_FailureDoesNotAbortBatch ==
    (Ended /\ AgentFailures # {}) =>
        /\ pc = "returned"
        /\ \A i \in DOMAIN tickers : \E k \in DOMAIN invocations : invocations[k].ti = i

\* C6: an analyst's output that does not parse is recorded as a None entry
\* under the analyst's name and the run goes on: while a ticker's later stages
\* run, and in the result returned after the last ticker, every analyst that
\* has run has its entry, and the entry of the one that just answered text
\* that is no JSON is None.
C6_UnparseableOutputRecordedAsNone ==
    /\ (pc \in {"stage", "invoking", "after_loop"}) =>
           \A s \in 1..(si - 1) : agents[s] \in DOMAIN analysis_data
    /\ (pc = "stage" /\ si > 1 /\ response.content.text = <<"junk">>) =>
           /\ IsNone(analysis_data[agents[si - 1]])
           /\ analysis_data[agents[si - 1]].v = <<agents[si - 1], ti>>
    /\ (pc = "returned") =>
           /\ AnalystAgents \subseteq DOMAIN result.v.analyst_signals
           /\ \A a \in AnalystAgents : result.v.analyst_signals[a].v = <<a, ti>>

\* C6 witness: the first analyst of two answered junk for the second ticker,
\* and the second analyst is about to be invoked
C6_Witness ==
    /\ pc = "stage"
    /\ ti = 2
    /\ si = 2
    /\ Len(agents) = 3
    /\ response.content.text = <<"junk">>
    /\ IsNone(analysis_data[agents[1]])

\* C7: once every selected analyst has run for a ticker, the state held by the
\* State Store has each analyst's record in analyst_signals.
C7_AnalystRecordsInStateStore ==
    (pc = "stage" /\ si > 1 /\ agents[si] = PortfolioManager /\ file.st = "json") =>
        \A s \in 1..(si - 1) : agents[s] \in DOMAIN file.doc.v.data.analyst_signals

\* the analyst_signals keys in what a plugin call returned
SignalKeys(value) ==
    IF "analyst_signals" \in DOMAIN value THEN DOMAIN value.analyst_signals ELSE {}
\* the analyst_signals keys the plugin calls of the running invocation returned
DeliveredFromStore ==
    UNION {SignalKeys(calls[c].value) : c \in {d \in DOMAIN calls : calls[d].st = "done"}}

\* C8: with two or more analysts selected, the portfolio manager's invocation
\* has been given, from the State Store, the record of every selected analyst
\* by the time it answers.
C8_ManagerGetsAllRecordsFromStore ==
    [][(/\ pc = "invoking"
        /\ pc' \in {"stage", "after_loop"}
        /\ Len(agents) >= 3
        /\ \E c \in DOMAIN calls : calls[c].st = "done") =>
          AnalystAgents \subseteq DeliveredFromStore]_vars

(***************************************************************************)
(* SpecStore: a client of the State Store calls its two tools in any       *)
(* order.  The state file may be there before the first call: left by a    *)
(* run, or written by something else.                                      *)
(***************************************************************************)
SampleStates ==
    {NewAgentState(tk, InitialPortfolio(tk, DefaultInitialCash), 1, 2, show) :
        tk \in {<<"T1">>, <<"T1", "T2">>}, show \in BOOLEAN}
    \cup {LeftoverState}

\* what the tool set accepts: new_state: AgentState | None
SetArguments == SampleStates \cup {None}

\* a file that is JSON but no AgentState: a dict without "metadata"
ForeignFile == FileOf(Dict([data |-> <<>>]))

InitStore ==
    /\ file \in InitialFiles \cup {ForeignFile}
    /\ StoreIdle
    /\ RunIdle
    /\ ScoreIdle
    /\ RiskIdle
    /\ ParseIdle

\* the client calls set(new_state) and the tool returns
client_set ==
    /\ \E new_state \in SetArguments, io \in WriteOutcomes :
          /\ file' = set(file, new_state, io)
          /\ lastSet' = new_state
    /\ lastOp' = "set"
    /\ UNCHANGED <<parseVars, riskVars, scoreVars, lastGet, runVars>>

\* the client calls get() and the tool returns
client_get ==
    /\ \E io \in ReadOutcomes : lastGet' = get(file, io)
    /\ lastOp' = "get"
    /\ UNCHANGED <<parseVars, riskVars, scoreVars, file, lastSet, runVars>>

NextStore ==
    \/ client_set
    \/ client_get

SpecStore == InitStore /\ [][NextStore]_vars

\* C9: a get that follows set(s), with no other set in between, returns s.
C9_GetReturnsWhatWasSet ==
    (lastOp = "get" /\ lastSet # NoCall) => lastGet = lastSet

\* the file holds an AgentState: JSON text of a dict with both keys
HoldsState(f) ==
    /\ f.st = "json"
    /\ f.doc.t = "dict"
    /\ "data" \in DOMAIN f.doc.v
    /\ "metadata" \in DOMAIN f.doc.v

\* C10: get on a store that holds no state (no file, or a file that is not
\* an AgentState) returns None, never a default or malformed state; and what
\* get returns, if not None, has both "data" and "metadata".
C10_GetReturnsNoneOrWholeState ==
    lastOp = "get" =>
        /\ ~HoldsState(file) => lastGet = None
        /\ lastGet # None => (lastGet.t = "dict" /\ {"data", "metadata"} \subseteq DOMAIN lastGet.v)
        /\ lastGet # None => lastGet = file.doc

\* C10 witness: get has answered None with no state file there
C10_Witness ==
    /\ lastOp = "get"
    /\ file.st = "missing"
    /\ lastGet = None

(***************************************************************************)
(* The persona plugins.  What the data API returned is an input: money in  *)
(* whole units, ratios (operating_margin, debt_to_equity, return_on_equity)*)
(* in hundredths.  An optional number is <<>> for Python's None and <<x>>  *)
(* for the number x.  The thresholds of the code are decimal fractions, so *)
(* on these inputs each float comparison is the integer comparison written *)
(* here.                                                                   *)
(***************************************************************************)
Missing == <<>>
Some(x) == <<x>>
\* Python's truth value of an optional number: neither None nor 0
Truthy(o) == o # Missing /\ o[1] # 0
\* o if o else 0
OrZero(o) == IF Truthy(o) THEN o[1] ELSE 0

RECURSIVE Present(_, _)
\* [item.f for item in items if item.f is not None]
Present(items, f) ==
    IF items = <<>> THEN <<>>
    ELSE (IF Head(items)[f] # Missing THEN <<Head(items)[f][1]>> ELSE <<>>)
         \o Present(Tail(items), f)

RECURSIVE SumSeq(_)
SumSeq(q) == IF q = <<>> THEN 0 ELSE Head(q) + SumSeq(Tail(q))

\* count >= (len(vals) // 2 + 1), n being len(vals)
Majority(count, n) == count >= (n \div 2) + 1

\* what one check of a sub-analysis adds: points and one line of details
Part(points, detail) == [score |-> points, detail |-> detail]
Scores(parts) == SumSeq([i \in DOMAIN parts |-> parts[i].score])
Details(parts) == [i \in DOMAIN parts |-> parts[i].detail]

\* an error a function raised instead of returning
Raised(error) == [raised |-> error]
HasRaised(r) == "raised" \in DOMAIN r

(***************************************************************************)
(* bill_ackman.py                                                          *)
(***************************************************************************)
\* analyze_business_quality, 1: multi-period revenue growth
quality_revenue_growth(items) ==
    LET revenues == Present(items, "revenue")
    IN  IF Len(revenues) >= 2
        THEN LET initial == revenues[Len(revenues)]
                 final == revenues[1]
             IN  IF initial # 0 /\ final # 0 /\ final > initial
                 THEN IF (final - initial) * 2 > Abs(initial)
                      THEN Part(2, "strong growth")
                      ELSE Part(1, "growth under 50%")
                 ELSE Part(0, "revenue did not grow")
        ELSE Part(0, "not enough revenue data")

\* analyze_business_quality, 2: operating margin
quality_operating_margin(items) ==
    LET op_margin_vals == Present(items, "operating_margin")
        above_15 == Cardinality({i \in DOMAIN op_margin_vals : op_margin_vals[i] > 15})
    IN  IF op_margin_vals # <<>>
        THEN IF Majority(above_15, Len(op_margin_vals))
             THEN Part(2, "margins often above 15%")
             ELSE Part(0, "margin not consistently above 15%")
        ELSE Part(0, "no operating margin data")

\* analyze_business_quality, 2: free cash flow consistency
quality_free_cash_flow(items) ==
    LET fcf_vals == Present(items, "free_cash_flow")
        positive_fcf_count == Cardinality({i \in DOMAIN fcf_vals : fcf_vals[i] > 0})
    IN  IF fcf_vals # <<>>
        THEN IF Majority(positive_fcf_count, Len(fcf_vals))
             THEN Part(1, "majority positive free cash flow")
             ELSE Part(0, "free cash flow not consistently positive")
        ELSE Part(0, "no free cash flow data")

\* analyze_business_quality, 3: return on equity of the latest metrics
quality_return_on_equity(latest_metrics) ==
    IF Truthy(latest_metrics.return_on_equity) /\ latest_metrics.return_on_equity[1] > 15
    THEN Part(2, "high ROE")
    ELSE IF Truthy(latest_metrics.return_on_equity)
         THEN Part(0, "moderate ROE")
         ELSE Part(0, "ROE not available")

analyze_business_quality(metrics, financial_line_items) ==
    IF metrics = <<>> \/ financial_line_items = <<>>
    THEN [score |-> 0, details |-> <<"insufficient data">>]
    ELSE LET parts == <<quality_revenue_growth(financial_line_items),
                        quality_operating_margin(financial_line_items),
                        quality_free_cash_flow(financial_line_items),
                        quality_return_on_equity(metrics[1])>>
         IN  [score |-> Scores(parts), details |-> Details(parts)]

\* analyze_financial_discipline, 1: debt_to_equity, else liabilities to assets
discipline_leverage(items) ==
    LET debt_to_equity_vals == Present(items, "debt_to_equity")
        below_one_count ==
            Cardinality({i \in DOMAIN debt_to_equity_vals : debt_to_equity_vals[i] < 100})
        liab_to_assets ==
            {i \in DOMAIN items : /\ Truthy(items[i].total_liabilities)
                                  /\ Truthy(items[i].total_assets)
                                  /\ items[i].total_assets[1] > 0}
        below_50pct_count ==
            Cardinality({i \in liab_to_assets :
                            2 * items[i].total_liabilities[1] < items[i].total_assets[1]})
    IN  IF debt_to_equity_vals # <<>>
        THEN IF Majority(below_one_count, Len(debt_to_equity_vals))
             THEN Part(2, "debt-to-equity < 1.0 for the majority of periods")
             ELSE Part(0, "debt-to-equity >= 1.0 in many periods")
        ELSE IF liab_to_assets # {}
             THEN IF Majority(below_50pct_count, Cardinality(liab_to_assets))
                  THEN Part(2, "liabilities-to-assets < 50% for majority of periods")
                  ELSE Part(0, "liabilities-to-assets >= 50% in many periods")
             ELSE Part(0, "no leverage ratio data")

\* analyze_financial_discipline, 2: dividends
discipline_dividends(items) ==
    LET dividends_list == Present(items, "dividends_and_other_cash_distributions")
        paying_dividends_count ==
            Cardinality({i \in DOMAIN dividends_list : dividends_list[i] < 0})
    IN  IF dividends_list # <<>>
        THEN IF Majority(paying_dividends_count, Len(dividends_list))
             THEN Part(1, "history of returning capital")
             ELSE Part(0, "dividends not consistently paid")
        ELSE Part(0, "no dividend data")

\* analyze_financial_discipline, 2: decreasing share count
discipline_buybacks(items) ==
    LET shares == Present(items, "outstanding_shares")
    IN  IF Len(shares) >= 2
        THEN IF shares[1] < shares[Len(shares)]
             THEN Part(1, "outstanding shares have decreased")
             ELSE Part(0, "outstanding shares have not decreased")
        ELSE Part(0, "no multi-period share count data")

analyze_financial_discipline(metrics, financial_line_items) ==
    IF metrics = <<>> \/ financial_line_items = <<>>
    THEN [score |-> 0, details |-> <<"insufficient data">>]
    ELSE LET parts == <<discipline_leverage(financial_line_items),
                        discipline_dividends(financial_line_items),
                        discipline_buybacks(financial_line_items)>>
         IN  [score |-> Scores(parts), details |-> Details(parts)]

analyze_activism_potential(financial_line_items) ==
    LET revenues == Present(financial_line_items, "revenue")
        op_margins == Present(financial_line_items, "operating_margin")
        initial == revenues[Len(revenues)]
        final == revenues[1]
        \* revenue_growth > 0.15, revenue_growth being 0 when initial is 0
        growth_above_15 == initial # 0 /\ (final - initial) * 100 > 15 * Abs(initial)
        \* avg_margin < 0.10
        margin_below_10 == SumSeq(op_margins) < 10 * Len(op_margins)
    IN  IF financial_line_items = <<>>
        THEN [score |-> 0, details |-> <<"insufficient data">>]
        ELSE IF Len(revenues) < 2 \/ op_margins = <<>>
        THEN [score |-> 0, details |-> <<"not enough data">>]
        ELSE IF growth_above_15 /\ margin_below_10
        THEN [score |-> 2, details |-> <<"activism could unlock margin improvements">>]
        ELSE [score |-> 0, details |-> <<"no clear sign of activism opportunity">>]

\* analyze_valuation's DCF assumptions; the two rates in hundredths
growth_rate == 6
discount_rate == 10
terminal_multiple == 15
projection_years == 5

\* amounts of the DCF are kept in thousandths of a unit
Thousandths(x) == x * 1000

RECURSIVE Discounted(_, _)
\* amount * (1 + growth_rate) ** year / (1 + discount_rate) ** year
Discounted(amount, year) ==
    IF year = 0 THEN amount
    ELSE Discounted((amount * (100 + growth_rate)) \div (100 + discount_rate), year - 1)

\* present_value after the loop over range(1, projection_years + 1)
present_value(fcf) ==
    SumSeq([year \in 1..projection_years |-> Discounted(Thousandths(fcf), year)])

terminal_value(fcf) == Discounted(Thousandths(fcf), projection_years) * terminal_multiple

intrinsic_value(fcf) == present_value(fcf) + terminal_value(fcf)

\* margin_of_safety > pct / 100, margin_of_safety being
\* (intrinsic_value - market_cap) / market_cap and market_cap not 0
margin_of_safety_above(pct, fcf, market_cap) ==
    LET excess == intrinsic_value(fcf) - Thousandths(market_cap)
    IN  IF market_cap > 0
        THEN excess * 100 > pct * Thousandths(market_cap)
        ELSE excess * 100 < pct * Thousandths(market_cap)

\* the valuation with a slip: the division by market_cap comes before the
\* test of the free cash flow
analyze_valuation_DividesFirst(financial_line_items, market_cap) ==
    IF financial_line_items = <<>> \/ market_cap = Missing
    THEN [score |-> 0, details |-> <<"insufficient data">>]
    ELSE LET latest == financial_line_items[1]
             fcf == OrZero(latest.free_cash_flow)
         IN  IF market_cap[1] = 0
             THEN Raised("ZeroDivisionError")
             ELSE IF fcf <= 0
             THEN [score |-> 0, details |-> <<"no positive FCF">>, intrinsic_value |-> Missing]
             ELSE [score |-> IF margin_of_safety_above(30, fcf, market_cap[1]) THEN 3
                             ELSE IF margin_of_safety_above(10, fcf, market_cap[1]) THEN 1
                             ELSE 0,
                   details |-> <<"intrinsic value", "market cap", "margin of safety">>,
                   intrinsic_value |-> Some(intrinsic_value(fcf))]

analyze_valuation(financial_line_items, market_cap) ==
    IF financial_line_items = <<>> \/ market_cap = Missing
    THEN [score |-> 0, details |-> <<"insufficient data">>]
    ELSE LET latest == financial_line_items[1]
             fcf == OrZero(latest.free_cash_flow)
         IN  IF fcf <= 0
             THEN [score |-> 0, details |-> <<"no positive FCF">>, intrinsic_value |-> Missing]
             ELSE IF market_cap[1] = 0
             THEN Raised("ZeroDivisionError")
             ELSE [score |-> IF margin_of_safety_above(30, fcf, market_cap[1]) THEN 3
                             ELSE IF margin_of_safety_above(10, fcf, market_cap[1]) THEN 1
                             ELSE 0,
                   details |-> <<"intrinsic value", "market cap", "margin of safety">>,
                   intrinsic_value |-> Some(intrinsic_value(fcf))]

\* the signal with a slip: strictly above 0.7 * max_possible_score for bullish
ackman_signal_StrictlyAbove(total_score, max_possible_score) ==
    IF 10 * total_score > 7 * max_possible_score THEN "bullish"
    ELSE IF 10 * total_score <= 3 * max_possible_score THEN "bearish"
    ELSE "neutral"

\* get_analysis_data, lines 72-77.  0.7 * 20 is the float 14.0 and 0.3 * 20
\* the float 6.0, and the total is an integer.
ackman_signal(total_score, max_possible_score) ==
    IF 10 * total_score >= 7 * max_possible_score THEN "bullish"
    ELSE IF 10 * total_score <= 3 * max_possible_score THEN "bearish"
    ELSE "neutral"

max_possible_score == 20

\* AnalysisDataPlugin4BillAckman.get_analysis_data, given what the API returned
ackman_get_analysis_data(ticker, metrics, financial_line_items, market_cap) ==
    LET quality_analysis == analyze_business_quality(metrics, financial_line_items)
        balance_sheet_analysis == analyze_financial_discipline(metrics, financial_line_items)
        activism_analysis == analyze_activism_potential(financial_line_items)
        valuation_analysis == analyze_valuation(financial_line_items, market_cap)
        total_score == quality_analysis.score + balance_sheet_analysis.score
                       + activism_analysis.score + valuation_analysis.score
    IN  IF HasRaised(valuation_analysis)
        THEN [k |-> "raised", v |-> valuation_analysis]
        ELSE [k |-> "returned",
              v |-> (ticker :> [signal |-> ackman_signal(total_score, max_possible_score),
                                score |-> total_score,
                                max_score |-> max_possible_score,
                                quality_analysis |-> quality_analysis,
                                balance_sheet_analysis |-> balance_sheet_analysis,
                                activism_analysis |-> activism_analysis,
                                valuation_analysis |-> valuation_analysis])]

(***************************************************************************)
(* michael_burry.py.  ev_to_ebit is in whole units.                        *)
(***************************************************************************)
_latest_line_item(line_items) == IF line_items # <<>> THEN Some(line_items[1]) ELSE Missing

\* fcf_yield >= pct / 100, fcf_yield being fcf / market_cap and market_cap not 0
fcf_yield_at_least(pct, fcf, market_cap) ==
    IF market_cap > 0
    THEN fcf * 100 >= pct * market_cap
    ELSE fcf * 100 <= pct * market_cap

\* _analyze_value: free-cash-flow yield
value_fcf_yield(line_items, market_cap) ==
    LET latest_item == _latest_line_item(line_items)
        fcf == IF latest_item # Missing THEN latest_item[1].free_cash_flow ELSE Missing
    IN  IF fcf # Missing /\ Truthy(market_cap)
        THEN IF      fcf_yield_at_least(15, fcf[1], market_cap[1]) THEN Part(4, "extraordinary FCF yield")
             ELSE IF fcf_yield_at_least(12, fcf[1], market_cap[1]) THEN Part(3, "very high FCF yield")
             ELSE IF fcf_yield_at_least(8, fcf[1], market_cap[1]) THEN Part(2, "respectable FCF yield")
             ELSE Part(0, "low FCF yield")
        ELSE Part(0, "FCF data unavailable")

\* _analyze_value: EV/EBIT
value_ev_to_ebit(metrics) ==
    IF metrics # <<>>
    THEN LET ev_ebit == metrics[1].ev_to_ebit
         IN  IF ev_ebit # Missing
             THEN IF ev_ebit[1] < 6 THEN Part(2, "EV/EBIT < 6")
                  ELSE IF ev_ebit[1] < 10 THEN Part(1, "EV/EBIT < 10")
                  ELSE Part(0, "high EV/EBIT")
             ELSE Part(0, "EV/EBIT data unavailable")
    ELSE Part(0, "financial metrics unavailable")

_analyze_value(metrics, line_items, market_cap) ==
    LET parts == <<value_fcf_yield(line_items, market_cap), value_ev_to_ebit(metrics)>>
    IN  [score |-> Scores(parts), max_score |-> 6, details |-> Details(parts)]

\* _analyze_balance_sheet: leverage
balance_debt_to_equity(metrics) ==
    LET debt_to_equity == IF metrics # <<>> THEN metrics[1].debt_to_equity ELSE Missing
    IN  IF debt_to_equity # Missing
        THEN IF debt_to_equity[1] < 50 THEN Part(2, "low D/E")
             ELSE IF debt_to_equity[1] < 100 THEN Part(1, "moderate D/E")
             ELSE Part(0, "high leverage")
        ELSE Part(0, "debt-to-equity data unavailable")

\* _analyze_balance_sheet: cash against total debt; nothing is added to
\* details when there is no line item
balance_liquidity(line_items) ==
    LET latest_item == _latest_line_item(line_items)
    IN  IF latest_item # Missing
        THEN LET cash == latest_item[1].cash_and_equivalents
                 total_debt == latest_item[1].total_debt
             IN  IF cash # Missing /\ total_debt # Missing
                 THEN IF cash[1] > total_debt[1]
                      THEN <<Part(1, "net cash position")>>
                      ELSE <<Part(0, "net debt position")>>
                 ELSE <<Part(0, "cash/debt data unavailable")>>
        ELSE <<>>

_analyze_balance_sheet(metrics, line_items) ==
    LET parts == <<balance_debt_to_equity(metrics)>> \o balance_liquidity(line_items)
    IN  [score |-> Scores(parts), max_score |-> 3, details |-> Details(parts)]

\* t.transaction_shares or 0, for each trade
SharesOrZero(insider_trades) == [i \in DOMAIN insider_trades |-> OrZero(insider_trades[i])]

_analyze_insider_activity(insider_trades) ==
    LET traded == SharesOrZero(insider_trades)
        shares_bought == SumSeq([i \in DOMAIN traded |-> IF traded[i] > 0 THEN traded[i] ELSE 0])
        shares_sold == Abs(SumSeq([i \in DOMAIN traded |-> IF traded[i] < 0 THEN traded[i] ELSE 0]))
        net == shares_bought - shares_sold
        largest == IF shares_sold >= 1 THEN shares_sold ELSE 1
    IN  IF insider_trades = <<>>
        THEN [score |-> 0, max_score |-> 2, details |-> <<"no insider trade data">>]
        ELSE IF net > 0
        THEN [score |-> IF net > largest THEN 2 ELSE 1, max_score |-> 2,
              details |-> <<"net insider buying">>]
        ELSE [score |-> 0, max_score |-> 2, details |-> <<"net insider selling">>]

\* str.lower on the sentiments the inputs use; "" stands for no sentiment
lower(sentiment) ==
    CASE sentiment = "Negative" -> "negative"
      [] sentiment = "BEARISH" -> "bearish"
      [] OTHER -> sentiment

\* the sub-analysis with a slip: one point for every negative headline
_analyze_contrarian_sentiment_CountsHeadlines(news) ==
    LET sentiment_negative_count ==
            Cardinality({i \in DOMAIN news : /\ news[i] # ""
                                             /\ lower(news[i]) \in {"negative", "bearish"}})
    IN  IF news = <<>>
        THEN [score |-> 0, max_score |-> 1, details |-> <<"no recent news">>]
        ELSE [score |-> sentiment_negative_count, max_score |-> 1,
              details |-> <<"negative headlines">>]

_analyze_contrarian_sentiment(news) ==
    LET sentiment_negative_count ==
            Cardinality({i \in DOMAIN news : /\ news[i] # ""
                                             /\ lower(news[i]) \in {"negative", "bearish"}})
    IN  IF news = <<>>
        THEN [score |-> 0, max_score |-> 1, details |-> <<"no recent news">>]
        ELSE IF sentiment_negative_count >= 5
        THEN [score |-> 1, max_score |-> 1, details |-> <<"negative headlines">>]
        ELSE [score |-> 0, max_score |-> 1, details |-> <<"limited negative press">>]

\* get_analysis_data, lines 105-110.  0.7 * max_score and 0.3 * max_score are
\* floats that are no integers unless max_score is a multiple of 10, and the
\* total is an integer, so the comparison is the one in tenths.
burry_signal(total_score, max_score) ==
    IF 10 * total_score >= 7 * max_score THEN "bullish"
    ELSE IF 10 * total_score <= 3 * max_score THEN "bearish"
    ELSE "neutral"

\* AnalysisDataPlugin4MichaelBurry.get_analysis_data, given what the API returned
burry_get_analysis_data(ticker, metrics, line_items, insider_trades, news, market_cap) ==
    LET value_analysis == _analyze_value(metrics, line_items, market_cap)
        balance_sheet_analysis == _analyze_balance_sheet(metrics, line_items)
        insider_analysis == _analyze_insider_activity(insider_trades)
        contrarian_analysis == _analyze_contrarian_sentiment(news)
        total_score == value_analysis.score + balance_sheet_analysis.score
                       + insider_analysis.score + contrarian_analysis.score
        max_score == value_analysis.max_score + balance_sheet_analysis.max_score
                     + insider_analysis.max_score + contrarian_analysis.max_score
    IN  [k |-> "returned",
         v |-> (ticker :> [signal |-> burry_signal(total_score, max_score),
                           score |-> total_score,
                           max_score |-> max_score,
                           value_analysis |-> value_analysis,
                           balance_sheet_analysis |-> balance_sheet_analysis,
                           insider_analysis |-> insider_analysis,
                           contrarian_analysis |-> contrarian_analysis,
                           market_cap |-> market_cap])]

(***************************************************************************)
(* SpecScore: the persona plugins are called, in any order, with whatever  *)
(* the data API returns for the ticker.                                    *)
(***************************************************************************)
MaxPeriods == 2
MaxTrades == 2

LineItem(revenue, operating_margin, debt_to_equity, free_cash_flow, total_assets, total_liabilities, dividends, outstanding_shares) ==
    [revenue |-> revenue,
     operating_margin |-> operating_margin,
     debt_to_equity |-> debt_to_equity,
     free_cash_flow |-> free_cash_flow,
     total_assets |-> total_assets,
     total_liabilities |-> total_liabilities,
     dividends_and_other_cash_distributions |-> dividends,
     outstanding_shares |-> outstanding_shares]

\* the annual line items search_line_items may return for Ackman, newest first
AckmanLineItems ==
    {LineItem(Some(200), Some(20), Some(50), Some(10), Some(100), Some(40), Some(-5), Some(90)),
     LineItem(Some(100), Some(20), Some(50), Some(10), Some(100), Some(40), Some(-5), Some(100)),
     LineItem(Some(120), Some(5), Missing, Some(0), Some(100), Some(40), Missing, Some(100)),
     LineItem(Some(100), Some(5), Some(150), Some(-5), Some(100), Some(60), Some(0), Some(100)),
     LineItem(Some(0), Missing, Missing, Missing, Some(0), Some(10), Missing, Missing),
     LineItem(Missing, Missing, Missing, Missing, Missing, Missing, Missing, Missing)}

AckmanMetrics ==
    {<<>>} \cup {<<[return_on_equity |-> r]>> : r \in {Missing, Some(0), Some(10), Some(20)}}

AckmanMarketCaps == {Missing, Some(0), Some(100), Some(140), Some(200)}

\* the latest line item search_line_items may return for Burry
BurryLineItems ==
    {<<>>} \cup
    {<<[free_cash_flow |-> f, cash_and_equivalents |-> c[1], total_debt |-> c[2]]>> :
        f \in {Missing, Some(-5), Some(8), Some(12), Some(15)},
        c \in {<<Missing, Some(10)>>, <<Some(20), Some(10)>>, <<Some(10), Some(10)>>}}

BurryMetrics ==
    {<<>>} \cup
    {<<[ev_to_ebit |-> m[1], debt_to_equity |-> m[2]]>> :
        m \in {<<Missing, Missing>>, <<Some(5), Some(30)>>, <<Some(8), Some(70)>>,
               <<Some(12), Some(150)>>}}

BurryMarketCaps == {Missing, Some(0), Some(100)}

\* transaction_shares of the insider trades of the last year
InsiderTrades == SeqsUpTo({Missing, Some(0), Some(100), Some(-40), Some(-80)}, MaxTrades)

\* sentiment of the news of the last year
NewsLists ==
    {<<>>,
     <<"negative", "positive", "", "neutral">>,
     <<"negative", "negative", "negative", "negative", "positive">>,
     <<"negative", "Negative", "bearish", "BEARISH", "negative">>}

\* what the API returns to each persona
MetricsOf(persona) == IF persona = "bill_ackman" THEN AckmanMetrics ELSE BurryMetrics
LineItemsOf(persona) ==
    IF persona = "bill_ackman" THEN SeqsUpTo(AckmanLineItems, MaxPeriods) ELSE BurryLineItems
MarketCapsOf(persona) == IF persona = "bill_ackman" THEN AckmanMarketCaps ELSE BurryMarketCaps

\* a persona's get_analysis_data is called for a ticker
get_analysis_data_begin ==
    /\ analysis_call.at \in {"idle", "done"}
    /\ \E persona \in AnalystKeys, ticker \in TickerNames :
          analysis_call' = [NoAnalysisCall EXCEPT !.at = "metrics", !.persona = persona,
                                                  !.ticker = ticker]
    /\ analysis_result' = [k |-> "none", v |-> <<>>]
    /\ UNCHANGED <<parseVars, riskVars, storeVars, runVars>>

\* metrics = get_financial_metrics(...)
fetch_metrics ==
    /\ analysis_call.at = "metrics"
    /\ \E metrics \in MetricsOf(analysis_call.persona) :
          analysis_call' = [analysis_call EXCEPT !.metrics = metrics, !.at = "line_items"]
    /\ UNCHANGED <<parseVars, riskVars, storeVars, runVars, analysis_result>>

\* search_line_items(...); Burry's plugin goes on to the insider trades
fetch_line_items ==
    /\ analysis_call.at = "line_items"
    /\ \E line_items \in LineItemsOf(analysis_call.persona) :
          analysis_call' =
              [analysis_call EXCEPT !.line_items = line_items,
                                    !.at = IF analysis_call.persona = "michael_burry"
                                           THEN "insider_trades" ELSE "market_cap"]
    /\ UNCHANGED <<parseVars, riskVars, storeVars, runVars, analysis_result>>

\* michael_burry.py: insider_trades = get_insider_trades(...)
fetch_insider_trades ==
    /\ analysis_call.at = "insider_trades"
    /\ \E insider_trades \in InsiderTrades :
          analysis_call' = [analysis_call EXCEPT !.insider_trades = insider_trades,
                                                 !.at = "news"]
    /\ UNCHANGED <<parseVars, riskVars, storeVars, runVars, analysis_result>>

\* michael_burry.py: news = get_company_news(...)
fetch_news ==
    /\ analysis_call.at = "news"
    /\ \E news \in NewsLists :
          analysis_call' = [analysis_call EXCEPT !.news = news, !.at = "market_cap"]
    /\ UNCHANGED <<parseVars, riskVars, storeVars, runVars, analysis_result>>

\* market_cap = get_market_cap(...)
fetch_market_cap ==
    /\ analysis_call.at = "market_cap"
    /\ \E market_cap \in MarketCapsOf(analysis_call.persona) :
          analysis_call' = [analysis_call EXCEPT !.market_cap = market_cap, !.at = "analyze"]
    /\ UNCHANGED <<parseVars, riskVars, storeVars, runVars, analysis_result>>

\* bill_ackman.py lines 50-89: the sub-analyses, the total, the signal, the return
ackman_analyze ==
    /\ analysis_call.at = "analyze"
    /\ analysis_call.persona = "bill_ackman"
    /\ analysis_result' =
          ackman_get_analysis_data(analysis_call.ticker, analysis_call.metrics,
                                   analysis_call.line_items, analysis_call.market_cap)
    /\ analysis_call' = [analysis_call EXCEPT !.at = "done"]
    /\ UNCHANGED <<parseVars, riskVars, storeVars, runVars>>

\* michael_burry.py lines 77-128: the sub-analyses, the total, the signal, the return
burry_analyze ==
    /\ analysis_call.at = "analyze"
    /\ analysis_call.persona = "michael_burry"
    /\ analysis_result' =
          burry_get_analysis_data(analysis_call.ticker, analysis_call.metrics,
                                  analysis_call.line_items, analysis_call.insider_trades,
                                  analysis_call.news, analysis_call.market_cap)
    /\ analysis_call' = [analysis_call EXCEPT !.at = "done"]
    /\ UNCHANGED <<parseVars, riskVars, storeVars, runVars>>

InitScore ==
    /\ file \in InitialFiles
    /\ StoreIdle
    /\ RunIdle
    /\ ScoreIdle
    /\ RiskIdle
    /\ ParseIdle

NextScore ==
    \/ get_analysis_data_begin
    \/ fetch_metrics
    \/ fetch_line_items
    \/ fetch_insider_trades
    \/ fetch_news
    \/ fetch_market_cap
    \/ ackman_analyze
    \/ burry_analyze

SpecScore == InitScore /\ [][NextScore]_vars

\* the record the latest call returned for its ticker
Emitted == analysis_result.v[analysis_call.ticker]

\* C1: whichever persona was called, the record it returns carries one signal:
\* bullish exactly when score >= 0.7 * max_score, bearish exactly when
\* score <= 0.3 * max_score, neutral exactly when neither.
C1_SignalFollowsThresholds ==
    analysis_result.k = "returned" =>
        LET high == 10 * Emitted.score >= 7 * Emitted.max_score
            low == 10 * Emitted.score <= 3 * Emitted.max_score
        IN  /\ Emitted.signal \in {"bullish", "bearish", "neutral"}
            /\ Emitted.signal = "bullish" <=> high
            /\ Emitted.signal = "bearish" <=> low
            /\ Emitted.signal = "neutral" <=> (~high /\ ~low)

\* C1 witness: Ackman's total is exactly 0.7 * max_score and the signal is bullish
C1_Witness ==
    /\ analysis_result.k = "returned"
    /\ analysis_call.persona = "bill_ackman"
    /\ 10 * Emitted.score = 7 * Emitted.max_score
    /\ Emitted.signal = "bullish"

(***************************************************************************)
(* The State Store, continued (SpecStore).                                 *)
(***************************************************************************)
\* C11: once a state has been set, what the store holds is exactly the last
\* state set, whole: a get that reads the file returns it, whatever was set
\* or got before.
C11_StoreHoldsLastStateSet ==
    lastSet # NoCall => get(file, "ok") = lastSet

\* C12: when set has returned to the caller, the state file holds the new
\* state: a set is not acknowledged unless its write went through.
C12_SetReturnsOnlyAfterWrite ==
    lastOp = "set" => file = FileOf(lastSet)

(***************************************************************************)
(* SpecRisk: get_risk_data is called against a store that holds a state,   *)
(* as the portfolio manager's agent calls it; the calls of one response    *)
(* run concurrently, each suspended between its read and its write.        *)
(***************************************************************************)
MaxWriters == 2

\* the ticker a call is made with: one of the run, or one the state does
\* not know
TickerArguments == {"T1", "T3"}

\* what get_prices answers for a ticker: its latest close, or nothing
RiskPrices == {20, 50}
LatestClose(t) == IF t = "T1" THEN 20 ELSE 50
RiskPriceMaps(data) ==
    {px \in [all_tickers(data) -> RiskPrices \cup {NoPrice}] :
        \A t \in all_tickers(data) : px[t] \in {LatestClose(t), NoPrice}}

Portfolio(cash, positions) ==
    [cash |-> cash, margin_requirement |-> 0, margin_used |-> 0, positions |-> positions]

\* an AgentState with one more entry in analyst_signals
WithSignal(state, agent, record) ==
    Dict([state.v EXCEPT !.data.analyst_signals =
              DictSet(state.v.data.analyst_signals, agent, record)])

\* the states the store may hold when the portfolio manager's agent runs
RiskSampleStates ==
    {NewAgentState(<<"T1">>, InitialPortfolio(<<"T1">>, DefaultInitialCash), 1, 2, FALSE),
     NewAgentState(<<"T1", "T2">>,
                   Portfolio(1000, [t \in {"T1", "T2"} |->
                                       IF t = "T1" THEN [long |-> 2000, short |-> 0]
                                                   ELSE [long |-> 0, short |-> 0]]),
                   1, 2, FALSE),
     WithSignal(NewAgentState(<<"T1">>,
                              Portfolio(50000, [t \in {"T1", "T2"} |->
                                                  IF t = "T1" THEN [long |-> 10, short |-> 30]
                                                              ELSE [long |-> 0, short |-> 100]]),
                              1, 2, TRUE),
                "bill_ackman_agent", Doc("bill_ackman_agent", 1)),
     LeftoverState}

InitRisk ==
    /\ file \in {FileOf(state) : state \in RiskSampleStates}
    /\ StoreIdle
    /\ RunIdle
    /\ ScoreIdle
    /\ RiskIdle
    /\ ParseIdle

\* graph/state.py show_agent_reasoning: what it prints, the output under the
\* agent's name; it changes nothing
show_agent_reasoning(output, agent_name) == <<[agent |-> agent_name, output |-> output]>>

\* get_risk_data with a slip: the reasoning is left out of the records
\* unless show_reasoning is set
get_risk_data_result_ReasoningOnlyIfShown(ticker, state, px) ==
    LET full == risk_analysis(state.v.data, px)
        ra == IF state.v.metadata.show_reasoning
              THEN full
              ELSE [t \in DOMAIN full |-> [full[t] EXCEPT !.reasoning = <<>>]]
    IN  [value |-> ra,
         new_state |-> WithRiskSignal(state, ra),
         shown |-> IF state.v.metadata.show_reasoning
                   THEN show_agent_reasoning(ra, "Risk Management Agent")
                   ELSE <<>>]

\* get_risk_data with a slip: only the ticker asked for gets a record
get_risk_data_result_OnlyTickerAsked(ticker, state, px) ==
    LET full == risk_analysis(state.v.data, px)
        ra == [t \in DOMAIN full \cap {ticker} |-> full[t]]
    IN  [value |-> ra,
         new_state |-> WithRiskSignal(state, ra),
         shown |-> IF state.v.metadata.show_reasoning
                   THEN show_agent_reasoning(ra, "Risk Management Agent")
                   ELSE <<>>]

\* get_risk_data, lines 23-117, on the state read and the prices got: the
\* value it returns, the state it sends to the store, and what it prints.
\* The argument ticker is never read: line 30 binds the name anew.
get_risk_data_result(ticker, state, px) ==
    LET ra == risk_analysis(state.v.data, px)
    IN  [value |-> ra,
         new_state |-> WithRiskSignal(state, ra),
         shown |-> IF state.v.metadata.show_reasoning
                   THEN show_agent_reasoning(ra, "Risk Management Agent")
                   ELSE <<>>]

\* a state less the risk analysis an earlier call left in it (a call
\* replaces that entry and reads nothing of it)
LessRiskSignal(state) ==
    LET signals == state.v.data.analyst_signals
    IN  Dict([state.v EXCEPT !.data.analyst_signals =
                  [k \in DOMAIN signals \ {"risk_management_agent"} |-> signals[k]]])

\* q without its c-th element
Without(q, c) == SubSeq(q, 1, c - 1) \o SubSeq(q, c + 1, Len(q))

\* get_risk_data, lines 17-21: a call starts and reads the state; with
\* nothing to decode it raises and is over
risk_read ==
    /\ Len(calls) < MaxWriters
    /\ \E io \in ReadOutcomes :
          LET got == get(file, io)
          IN  calls' = IF got = None
                       THEN calls
                       ELSE Append(calls, Call("get_risk_data", "read", got, None))
    /\ UNCHANGED <<parseVars, riskVars, scoreVars, storeVars, pc, tickers, start_date, end_date, agents, ti, si,
                   response, analysis_data, result, invocations, failures>>

\* get_risk_data, lines 23-117: a call that has read gets the prices,
\* computes the risk analysis from the state it read, sets the state with
\* the analysis in it, and returns the analysis
risk_write ==
    /\ \E c \in DOMAIN calls :
          \E ticker \in TickerArguments, px \in RiskPriceMaps(calls[c].snap.v.data),
             io \in WriteOutcomes :
             LET snap == calls[c].snap
                 r == get_risk_data_result(ticker, snap, px)
             IN  /\ file' = set(file, r.new_state, io)
                 /\ calls' = Without(calls, c)
                 /\ risk_done' = [st |-> "returned",
                                  ticker |-> ticker,
                                  read |-> LessRiskSignal(snap),
                                  data |-> [tickers |-> snap.v.data.tickers,
                                            portfolio |-> snap.v.data.portfolio],
                                  px |-> px,
                                  value |-> r.value,
                                  signals |-> r.new_state.v.data.analyst_signals,
                                  shown |-> r.shown,
                                  stale |-> file.st = "json" /\ file.doc # snap]
    /\ UNCHANGED <<parseVars, scoreVars, lastSet, lastGet, lastOp, pc, tickers, start_date, end_date, agents,
                   ti, si, response, analysis_data, result, invocations, failures>>

NextRisk ==
    \/ risk_read
    \/ risk_write

SpecRisk == InitRisk /\ [][NextRisk]_vars

\* the tickers of the run that the returned call got a price for
Priced == {t \in Range(risk_done.data.tickers) : risk_done.px[t] # NoPrice}
Unpriced == {t \in Range(risk_done.data.tickers) : risk_done.px[t] = NoPrice}

\* C13: no get_risk_data call sets the state from a snapshot that it read
\* before another call's set: when a call writes, the store still holds what
\* the call read.
C13_NoSetFromStaleSnapshot ==
    risk_done.st = "returned" => ~risk_done.stale

\* C14: for every ticker with a price, the record's remaining_position_limit
\* is position_limit - current_position_value, position_limit being 20% of
\* the total portfolio value.
C14_RemainingLimitIsLimitLessPosition ==
    risk_done.st = "returned" =>
        \A t \in Priced :
            LET record == risk_done.value[t]
            IN  /\ 100 * record.reasoning.position_limit = 20 * record.reasoning.portfolio_value
                /\ record.remaining_position_limit =
                       record.reasoning.position_limit - record.reasoning.current_position_value

\* the positions of the portfolio that the returned call got a price for
KnownPositions ==
    {t \in DOMAIN risk_done.data.portfolio.positions : risk_done.px[t] # NoPrice}

\* long_shares * price - short_shares * price of a position
NetValue(t) ==
    risk_done.data.portfolio.positions[t].long * risk_done.px[t]
    - risk_done.data.portfolio.positions[t].short * risk_done.px[t]

RECURSIVE NetValueOver(_)
NetValueOver(S) ==
    IF S = {} THEN 0
    ELSE LET t == CHOOSE x \in S : TRUE IN NetValue(t) + NetValueOver(S \ {t})

\* C15: the total portfolio value a call reports is the cash plus the net
\* value (long less short, at the price) of exactly the positions that have
\* a price.
C15_TotalIsCashPlusPricedPositions ==
    risk_done.st = "returned" =>
        \A t \in Priced :
            risk_done.value[t].reasoning.portfolio_value =
                risk_done.data.portfolio.cash + NetValueOver(KnownPositions)

\* C15 witness: a call has returned a total for a portfolio with a short
\* position that has a price and a held position that has none
C15_Witness ==
    /\ risk_done.st = "returned"
    /\ Priced # {}
    /\ \E t \in KnownPositions : risk_done.data.portfolio.positions[t].short > 0
    /\ \E t \in DOMAIN risk_done.data.portfolio.positions :
          /\ t \notin KnownPositions
          /\ risk_done.data.portfolio.positions[t].short > 0

\* C16: a ticker of the run without a price gets a record with a remaining
\* position limit of 0 and the missing-data reason; its position adds nothing
\* to the total the other records report; and every ticker with a price
\* still gets its computed record.
C16_UnpricedTickerGetsErrorRecord ==
    risk_done.st = "returned" =>
        /\ \A t \in Unpriced :
              /\ t \in DOMAIN risk_done.value
              /\ risk_done.value[t].remaining_position_limit = 0
              /\ DOMAIN risk_done.value[t].reasoning = {"error"}
              /\ \A u \in Priced :
                    risk_done.value[u].reasoning.portfolio_value =
                        risk_done.data.portfolio.cash + NetValueOver(KnownPositions \ {t})
        /\ \A u \in Priced :
              /\ u \in DOMAIN risk_done.value
              /\ "error" \notin DOMAIN risk_done.value[u].reasoning
              /\ risk_done.value[u].current_price = risk_done.px[u]

\* C16 witness: a call has returned with one ticker of the run, in which the
\* portfolio holds shares, without a price and another ticker with a price
C16_Witness ==
    /\ risk_done.st = "returned"
    /\ Priced # {}
    /\ \E t \in Unpriced : risk_done.data.portfolio.positions[t].long > 0

\* the entries of a state's analyst_signals other than the risk analysis
OtherSignals(doc) ==
    [k \in DOMAIN doc.v.data.analyst_signals \ {"risk_management_agent"} |->
        doc.v.data.analyst_signals[k]]

\* C17: when a get_risk_data call returns, the stored state holds the value
\* it returned under analyst_signals["risk_management_agent"], and differs in
\* nothing else from the state stored before.
C17_OnlyRiskSignalChanges ==
    [][Len(calls') < Len(calls) =>
          /\ file'.st = "json"
          /\ "risk_management_agent" \in DOMAIN file'.doc.v.data.analyst_signals
          /\ file'.doc.v.data.analyst_signals["risk_management_agent"] = risk_done'.value
          /\ file.st = "json" =>
                /\ file'.doc.v.metadata = file.doc.v.metadata
                /\ file'.doc.v.data.tickers = file.doc.v.data.tickers
                /\ file'.doc.v.data.portfolio = file.doc.v.data.portfolio
                /\ file'.doc.v.data.start_date = file.doc.v.data.start_date
                /\ file'.doc.v.data.end_date = file.doc.v.data.end_date
                /\ OtherSignals(file'.doc) = OtherSignals(file.doc)]_vars

(***************************************************************************)
(* The persona plugins, continued (SpecScore).                             *)
(***************************************************************************)
\* the sub-analyses whose records a persona's record carries
SubAnalyses(persona) ==
    IF persona = "bill_ackman"
    THEN {"quality_analysis", "balance_sheet_analysis", "activism_analysis",
          "valuation_analysis"}
    ELSE {"value_analysis", "balance_sheet_analysis", "insider_analysis",
          "contrarian_analysis"}

\* the most points a sub-analysis can give: what its record declares as
\* max_score (Burry), or the sum of the points of its checks (Ackman, whose
\* records declare none: 2 + 2 + 1 + 2, 2 + 1 + 1, 2, 3)
SubMax(persona, name) ==
    IF persona = "bill_ackman"
    THEN [quality_analysis |-> 7, balance_sheet_analysis |-> 4, activism_analysis |-> 2,
          valuation_analysis |-> 3][name]
    ELSE Emitted[name].max_score

RECURSIVE SumOf(_, _)
\* the sum of val[x] over the x in S
SumOf(S, val) ==
    IF S = {} THEN 0
    ELSE LET x == CHOOSE y \in S : TRUE IN val[x] + SumOf(S \ {x}, val)

\* C18: in every record a persona returns, each sub-analysis score is
\* between 0 and that sub-analysis's maximum, and the total is between 0 and
\* max_score; with no data at all too.
C18_ScoresWithinBounds ==
    analysis_result.k = "returned" =>
        /\ \A name \in SubAnalyses(analysis_call.persona) :
              /\ 0 <= Emitted[name].score
              /\ Emitted[name].score <= SubMax(analysis_call.persona, name)
        /\ 0 <= Emitted.score
        /\ Emitted.score <= Emitted.max_score

\* C18 witness: a persona has returned a record for a ticker on which the
\* API had nothing at all
C18_Witness ==
    /\ analysis_result.k = "returned"
    /\ analysis_call.metrics = <<>>
    /\ analysis_call.line_items = <<>>
    /\ analysis_call.insider_trades = <<>>
    /\ analysis_call.news = <<>>
    /\ analysis_call.market_cap = Missing
    /\ Emitted.score = 0

\* C19: the record's max_score is the sum of its sub-analyses' maxima, and
\* its score the sum of their scores.
C19_MaxScoreIsSumOfSubMaxima ==
    analysis_result.k = "returned" =>
        LET names == SubAnalyses(analysis_call.persona)
        IN  /\ Emitted.max_score =
                  SumOf(names, [name \in names |-> SubMax(analysis_call.persona, name)])
            /\ Emitted.score = SumOf(names, [name \in names |-> Emitted[name].score])

(***************************************************************************)
(* parse_hedge_fund_response on any argument (SpecParse).  The pipeline    *)
(* only ever passes it str(response.content); here the argument is any     *)
(* text of up to MaxResponseLen tokens, or a value that is not a string.   *)
(***************************************************************************)
MaxResponseLen == 4

Texts == UNION {[1..n -> Tokens] : n \in 0..MaxResponseLen}

\* an argument: a string with its text, or something that is not a string
StrArg(text) == [is_str |-> TRUE, text |-> text]
NonStrArg == [is_str |-> FALSE, text |-> <<>>]
ParseArguments == {StrArg(text) : text \in Texts} \cup {NonStrArg}

\* the function on any argument: on a non-string re.search raises TypeError,
\* which the function catches and answers with None; every other exception
\* is caught too, so the call always returns
parse_hedge_fund_response_any(arg) ==
    IF arg.is_str
    THEN parse_hedge_fund_response(Content(arg.text, "", 0))
    ELSE NoneFrom("", 0)

InitParse ==
    /\ file \in InitialFiles
    /\ StoreIdle
    /\ RunIdle
    /\ ScoreIdle
    /\ RiskIdle
    /\ parse_call \in {[st |-> "called", response |-> a, value |-> <<>>] : a \in ParseArguments}

parse_return ==
    /\ parse_call.st = "called"
    /\ parse_call' = [parse_call EXCEPT
                          !.st = "returned",
                          !.value = parse_hedge_fund_response_any(parse_call.response)]
    /\ UNCHANGED <<riskVars, scoreVars, storeVars, runVars>>

NextParse ==
    \/ parse_return

SpecParse == InitParse /\ [][NextParse]_vars

\* the text is one JSON value, with nothing but white space around it
RawJson(text) ==
    \E m \in DOMAIN text :
        /\ text[m] = "json"
        /\ \A k \in DOMAIN text \ {m} : text[k] = "ws"

\* the first ```json block of the text, from its ```json to the next ```
\* (alone, or opening another block), holds one JSON value and white space
FencedJson(text) ==
    \E i, j \in DOMAIN text :
        /\ i < j
        /\ text[i] = "fence_open"
        /\ \A k \in 1..(i - 1) : text[k] # "fence_open"
        /\ text[j] \in {"fence_open", "fence_close"}
        /\ \A k \in (i + 1)..(j - 1) : text[k] \in {"ws", "json", "junk"}
        /\ \E m \in (i + 1)..(j - 1) :
              /\ text[m] = "json"
              /\ \A k \in ((i + 1)..(j - 1)) \ {m} : text[k] = "ws"

\* C20: parse_hedge_fund_response returns the decoded document for a raw
\* JSON string and for JSON fenced in a ```json block, and None for every
\* other argument: malformed JSON, malformed fenced content, a non-string.
C20_ParseDecodesRawAndFencedJson ==
    parse_call.st = "returned" =>
        LET r == parse_call.response
        IN  IF r.is_str /\ (RawJson(r.text) \/ FencedJson(r.text))
            THEN parse_call.value = Doc("", 0)
            ELSE parse_call.value = NoneFrom("", 0)

\* C20 witness: the call has returned the document of a ```json block that
\* other text precedes
C20_Witness ==
    /\ parse_call.st = "returned"
    /\ parse_call.response.is_str
    /\ Len(parse_call.response.text) > 1
    /\ parse_call.response.text[1] = "junk"
    /\ FencedJson(parse_call.response.text)
    /\ parse_call.value = Doc("", 0)

(***************************************************************************)
(* Properties of run_hedge_fund, continued (Spec).                         *)
(***************************************************************************)
\* C21: a configuration with no ticker, or with its end date before its
\* start date, is rejected before the pipeline starts: for such a run the
\* state file is never written and no stage is ever invoked.
C21_InvalidConfigurationRejected ==
    [][(tickers' = <<>> \/ end_date' < start_date') =>
          (file' = file /\ invocations' = <<>>)]_vars

\* the (agent, ticker index) pairs whose record the run has collected
Collected == {analysis_data[a].v : a \in DOMAIN analysis_data}

\* the (agent, ticker) pairs whose record the stored state's analyst_signals hold
StoredSignals(f) ==
    IF f.st = "json"
    THEN LET signals == f.doc.v.data.analyst_signals
         IN  UNION {{<<a, t>> : t \in DOMAIN signals[a]} : a \in DOMAIN signals}
    ELSE {}

\* C22: during a run analyst_signals only grows: a record that the run has
\* collected, or that the stored state holds, is still there after every
\* later step of the run.
C22_AnalystSignalsOnlyGrow ==
    [][pc # "start" =>
          /\ Collected \subseteq Collected'
          /\ StoredSignals(file) \subseteq StoredSignals(file')]_vars

(***************************************************************************)
(* Properties of get_risk_data, continued (SpecRisk).                      *)
(***************************************************************************)
\* the shares the portfolio the call read holds in t (none if it has no entry)
Held(t) ==
    IF t \in DOMAIN risk_done.data.portfolio.positions
    THEN risk_done.data.portfolio.positions[t]
    ELSE [long |-> 0, short |-> 0]

\* C23 as stated: for every ticker with a price, current_position_value is
\* |long_shares * price - short_shares| * price.
C23_PositionValueAsStated ==
    risk_done.st = "returned" =>
        \A t \in Priced :
            risk_done.value[t].reasoning.current_position_value =
                Abs(Held(t).long * risk_done.px[t] - Held(t).short) * risk_done.px[t]

\* C23 amended: for every ticker with a price, current_position_value is the
\* absolute net exposure |long_shares - short_shares| * price.
C23_PositionValueIsAbsoluteNetExposure ==
    risk_done.st = "returned" =>
        \A t \in Priced :
            risk_done.value[t].reasoning.current_position_value =
                Abs(Held(t).long - Held(t).short) * risk_done.px[t]

\* C23 witness: a call has returned the record of a ticker with a price in
\* which the portfolio is long and, by more shares, short
C23_Witness ==
    /\ risk_done.st = "returned"
    /\ \E t \in Priced :
          /\ Held(t).long > 0
          /\ Held(t).short > Held(t).long
          /\ risk_done.value[t].reasoning.current_position_value > 0

\* the tickers with a price whose position is worth more than 20% of the
\* total portfolio value
OverTheCap ==
    {t \in Priced :
        100 * Abs(Held(t).long - Held(t).short) * risk_done.px[t]
            > 20 * (risk_done.data.portfolio.cash + NetValueOver(KnownPositions))}

\* C24: for a ticker whose position is worth more than 20% of the total
\* portfolio value, the record reports the negative remaining limit, in
\* reasoning.remaining_limit and in remaining_position_limit; it is not
\* raised to zero.
C24_NegativeRemainingLimitNotClamped ==
    risk_done.st = "returned" =>
        \A t \in OverTheCap :
            LET record == risk_done.value[t]
                total == risk_done.data.portfolio.cash + NetValueOver(KnownPositions)
                value == Abs(Held(t).long - Held(t).short) * risk_done.px[t]
            IN  /\ record.reasoning.remaining_limit < 0
                /\ record.remaining_position_limit < 0
                /\ 100 * record.reasoning.remaining_limit = 20 * total - 100 * value
                /\ risk_done.data.portfolio.cash >= 0 =>
                       record.remaining_position_limit = record.reasoning.remaining_limit

\* C24 witness: a call has returned the record of a ticker whose position is
\* over the cap
C24_Witness ==
    /\ risk_done.st = "returned"
    /\ \E t \in OverTheCap : risk_done.value[t].remaining_position_limit < 0

\* a state with metadata.show_reasoning the other way round
OtherShowReasoning(state) ==
    Dict([state.v EXCEPT !.metadata.show_reasoning = ~state.v.metadata.show_reasoning])

\* C25: a get_risk_data call on the state that differs from the one read
\* only in metadata.show_reasoning, with the same prices, returns the same
\* risk analysis and sends the same analyst_signals to the store.  (The
\* state read is kept less its earlier risk analysis, which either call
\* replaces.)
C25_ShowReasoningChangesNoValue ==
    risk_done.st = "returned" =>
        LET twin == get_risk_data_result(risk_done.ticker, OtherShowReasoning(risk_done.read),
                                         risk_done.px)
        IN  /\ twin.value = risk_done.value
            /\ twin.new_state.v.data.analyst_signals = risk_done.signals

\* C25 witness: a call that read show_reasoning set has printed its risk
\* analysis and returned it, with a price for a ticker of the run
C25_Witness ==
    /\ risk_done.st = "returned"
    /\ risk_done.read.v.metadata.show_reasoning
    /\ risk_done.shown # <<>>
    /\ Priced # {}

\* the tickers the portfolio has a position in that are not in the tickers list
OnlyInPositions == DOMAIN risk_done.data.portfolio.positions \ Range(risk_done.data.tickers)

AnalysisOver(persona) == analysis_call.at = "done" /\ analysis_call.persona = persona

\* the latest line item fetched has no free cash flow, or one that is not positive
NoPositiveFcf ==
    /\ analysis_call.line_items # <<>>
    /\ LET fcf == analysis_call.line_items[1].free_cash_flow
       IN  fcf = Missing \/ fcf[1] <= 0

\* C26: when the latest free cash flow is missing, zero or negative and the
\* market cap is not null (zero included), Ackman's valuation raises nothing
\* and gives score 0 with the rationale "no positive FCF".
C26_NoPositiveFcfScoresZero ==
    (AnalysisOver("bill_ackman") /\ NoPositiveFcf /\ analysis_call.market_cap # Missing) =>
        /\ analysis_result.k = "returned"
        /\ Emitted.valuation_analysis.score = 0
        /\ Emitted.valuation_analysis.details = <<"no positive FCF">>

\* C26 witness: the valuation has returned for a negative latest free cash
\* flow and a market cap of zero
C26_Witness ==
    /\ AnalysisOver("bill_ackman")
    /\ NoPositiveFcf
    /\ analysis_call.line_items[1].free_cash_flow # Missing
    /\ analysis_call.market_cap = Some(0)
    /\ analysis_result.k = "returned"

\* C27: every sub-analysis of the two personas returns a score record on
\* every input and raises nothing: a call whose analysis has run has
\* returned, with a score in each sub-analysis record.
C27_SubAnalysesNeverRaise ==
    analysis_call.at = "done" =>
        /\ analysis_result.k = "returned"
        /\ \A name \in SubAnalyses(analysis_call.persona) : "score" \in DOMAIN Emitted[name]

(***************************************************************************)
(* Properties of run_hedge_fund, continued (Spec).                         *)
(***************************************************************************)
\* C28: nothing of one ticker's stages reaches another ticker's: the message
\* of a ticker's first stage carries the unfilled placeholder, the message
\* of any stage carries no output given for another ticker, and every record
\* in the collected signals was produced for the ticker being processed.
C28_NoContextAcrossTickers ==
    /\ \A k \in DOMAIN invocations :
          /\ invocations[k].agent = agents[1] =>
                 /\ invocations[k].analysis_by = Placeholder.by
                 /\ invocations[k].analysis_ti = Placeholder.ti
          /\ invocations[k].analysis_ti \in {Placeholder.ti, invocations[k].ti}
    /\ \A a \in DOMAIN analysis_data : analysis_data[a].v[2] = ti
    /\ pc = "returned" =>
           \A a \in DOMAIN result.v.analyst_signals :
               result.v.analyst_signals[a].v[2] = Len(tickers)

\* C28 witness: the first stage of the second ticker has been invoked after
\* the portfolio manager answered for the first ticker, and its output has
\* been collected
C28_Witness ==
    /\ ti = 2
    /\ Len(agents) >= 2
    /\ agents[1] \in DOMAIN analysis_data
    /\ \E k \in DOMAIN invocations :
          /\ invocations[k].ti = 2
          /\ invocations[k].agent = agents[1]
          /\ k > 1
          /\ invocations[k - 1].agent = PortfolioManager

\* the fresh AgentState the run sent to the store when it began
RunState ==
    NewAgentState(tickers, InitialPortfolio(tickers, DefaultInitialCash), start_date, end_date,
                  FALSE)

\* C29: the store holds the run's fresh state, with empty analyst_signals,
\* when the first stage is about to be invoked, and no plugin call of the
\* run reads an absent state or a state that is not this run's.
C29_FreshStateSetBeforeStages ==
    /\ (pc = "stage" /\ ti = 1 /\ si = 1) => file = FileOf(RunState)
    /\ pc = "invoking" =>
           \A c \in DOMAIN calls :
               /\ calls[c].st # "failed"
               /\ calls[c].st = "read" =>
                      /\ calls[c].snap.v.data.tickers = tickers
                      /\ calls[c].snap.v.data.start_date = start_date
                      /\ calls[c].snap.v.data.end_date = end_date

====
